---- MODULE Spec2Model ----
(***************************************************************************)
(* Token-airdrop reward reconciliation (heurist-network/token-airdrop).    *)
(*                                                                         *)
(*   Spec         process_miner_rewards of                                 *)
(*                s2-airdrop/miner-checker/filter_and_update_rewards.py    *)
(*   SpecCollect  main of                                                  *)
(*                s2-airdrop/unique-addresses-collector/                   *)
(*                collect_unique_addresses.py                              *)
(*                                                                         *)
(* Token amounts are Python floats.  A float is modelled as a natural      *)
(* number of 1/Scale tokens that carries at most MantBits significant      *)
(* bits; every float operation rounds to nearest, ties to even.            *)
(***************************************************************************)
EXTENDS Integers, Sequences, FiniteSets, TLC

(* ------------------------------ bounds -------------------------------- *)
MaxRows == 3
MantBits == 2
Scale == 2
MaxSybilFiles == 2
MaxCsvRows == 2
MaxAddresses == 3
MaxWorkers == 2

(* ------------------------- program constants -------------------------- *)
HexLen == 40

(* ------------------------------ strings ------------------------------- *)
UpperCase == <<"A", "B", "C", "D", "E", "F", "G", "X">>
LowerCase == <<"a", "b", "c", "d", "e", "f", "g", "x">>

\* the lower-case letter of every upper-case letter
LowerOf ==
    [c \in {UpperCase[k] : k \in 1..Len(UpperCase)} |->
        LowerCase[CHOOSE k \in 1..Len(UpperCase) : UpperCase[k] = c]]

lowerChar(c) == IF c \in DOMAIN LowerOf THEN LowerOf[c] ELSE c

\* str.lower()
lower(s) == [k \in 1..Len(s) |-> lowerChar(s[k])]

HexChars ==
    {"0", "1", "2", "3", "4", "5", "6", "7", "8", "9",
     "a", "b", "c", "d", "e", "f", "A", "B", "C", "D", "E", "F"}

\* ETH_ADDRESS_PATTERN.match(address): ^0x[a-fA-F0-9]{40}$, where $ matches
\* at the end of the string and also just before a newline that ends it.
is_valid_ethereum_address(address) ==
    /\ Len(address) >= HexLen + 2
    /\ address[1] = "0"
    /\ address[2] = "x"
    /\ \A k \in 3..(HexLen + 2) : address[k] \in HexChars
    /\ \/ Len(address) = HexLen + 2
       \/ Len(address) = HexLen + 3 /\ address[HexLen + 3] = "\n"

Rep(c, n) == [k \in 1..n |-> c]
Addr(c) == <<"0", "x">> \o Rep(c, HexLen)

(* ------------------------------ floats -------------------------------- *)
RECURSIVE Pow2(_)
Pow2(k) == IF k = 0 THEN 1 ELSE 2 * Pow2(k - 1)

RECURSIVE RoundAt(_, _)
RoundAt(n, e) ==
    IF n < Pow2(MantBits + e)
    THEN LET q == n \div Pow2(e)
             r == n % Pow2(e)
             up == \/ 2 * r > Pow2(e)
                   \/ 2 * r = Pow2(e) /\ q % 2 = 1
         IN  (IF up THEN q + 1 ELSE q) * Pow2(e)
    ELSE RoundAt(n, e + 1)

\* the float nearest to n/Scale tokens
Round(n) == RoundAt(n, 0)

\* float + float
FAdd(a, b) == Round(a + b)

(* ------------------------------ CSV cells ----------------------------- *)
\* The text of a numeric cell: its value, and whether the text is the
\* repr() Python prints for that float ("5.0") or another spelling ("5").
NumText(v, isRepr) == [k |-> "num", val |-> v, repr |-> isRepr]
Empty == [k |-> "empty", val |-> 0, repr |-> FALSE]
None == [k |-> "none", val |-> 0, repr |-> FALSE]

\* float(x) raises ValueError on '' and TypeError on None
floatRaises(cell) == cell.k # "num"
floatError(cell) == IF cell.k = "none" THEN "TypeError" ELSE "ValueError"
float(cell) == Round(cell.val)
\* str(f) of a float f; float(str(f)) = f
str(f) == NumText(f, TRUE)

WAIFU == "S2 waifu_reward_tokens"
LLAMA == "S2 llama_reward_tokens"
BASE == "S2 Total Base Tokens"
ADDRESS == "Address"
FieldNames == <<ADDRESS, WAIFU, LLAMA, BASE>>

Row(a, w, l, b) == (ADDRESS :> a) @@ (WAIFU :> w) @@ (LLAMA :> l) @@ (BASE :> b)

(* ------------------------------- inputs ------------------------------- *)
Tok == Scale                \* one token
AddrA == Addr("a")
AddrAUpper == Addr("A")
AddrB == Addr("b")
AddrEUpper == Addr("E")
AddrBad == Addr("g")

\* rows the csv.DictReader over input_rewards_path may yield
CandidateRows ==
    { Row(AddrA,      NumText(Tok, FALSE),     NumText(2 * Tok, FALSE), NumText(Tok + 1, FALSE)),
      Row(AddrA,      NumText(Tok, FALSE),     NumText(Tok, FALSE),     NumText(Tok - 1, FALSE)),
      Row(AddrAUpper, NumText(2 * Tok, FALSE), NumText(Tok, FALSE),     NumText(Tok, FALSE)),
      Row(AddrB,      NumText(Tok, FALSE),     NumText(Tok, FALSE),     NumText(Tok, FALSE)),
      Row(AddrB,      NumText(Tok - 1, FALSE), NumText(0, FALSE),       NumText(Tok - 1, FALSE)),
      Row(AddrB,      Empty,                   NumText(Tok, FALSE),     NumText(Tok, FALSE)),
      Row(AddrEUpper, NumText(Tok, FALSE),     NumText(Tok, FALSE),     NumText(Tok + 1, FALSE)),
      Row(AddrBad,    NumText(Tok, FALSE),     NumText(Tok, FALSE),     NumText(Tok + 1, FALSE)) }

\* the 'address' column of unique_addresses_path, or the file is missing
Missing == <<<<"<missing>">>>>
UniqueFiles == { Missing, <<>>, <<AddrEUpper>>, <<Addr("e"), Addr("e")>> }

\* records of the JSON array at miner_stats_path
Stat(a) == ("address" :> a)
Revised(v) == ("revisedTokens" :> v)
Total(v) == ("totalTokens" :> v)
StatLow == Stat(AddrA) @@ Revised(Tok)
StatHigh == Stat(AddrAUpper) @@ Total(2 * Tok)
StatBoth == Stat(AddrA) @@ Revised(Tok - 1) @@ Total(2 * Tok)
StatNone == Stat(AddrA)
StatOther == Stat(AddrB) @@ Total(2 * Tok)
StatsFiles ==
    { <<>>, <<StatLow>>, <<StatHigh>>, <<StatLow, StatHigh>>, <<StatHigh, StatLow>>,
      <<StatBoth>>, <<StatNone>>, <<StatOther, StatLow>> }

\* the file at output_path: absent, or a header line and the rows under it
NoFile == [exists |-> FALSE, header |-> <<>>, rows |-> <<>>]
File(h, rs) == [exists |-> TRUE, header |-> h, rows |-> rs]
OldFile == File(FieldNames, <<Row(AddrB, str(Tok), str(Tok), str(Tok))>>)

(* ----------------- filter_and_update_rewards.py: state ----------------- *)
VARIABLES
    pc,                  \* position in process_miner_rewards
    err,                 \* the exception that ended the run, "" if none
    unique_file,         \* what load_unique_addresses read
    stats_file,          \* what load_miner_stats read
    rewards_rows,        \* the rows the reader has yielded so far
    unique_addresses,
    miner_stats,
    processed_data,
    total_waifu_rewards,
    total_llama_rewards,
    total_base_tokens,
    filtered_data,
    output_file,
    message              \* the last line printed

rewardVars ==
    <<pc, err, unique_file, stats_file, rewards_rows, unique_addresses, miner_stats,
      processed_data, total_waifu_rewards, total_llama_rewards, total_base_tokens,
      filtered_data, output_file, message>>

(* --------------- filter_and_update_rewards.py: functions --------------- *)
Range(s) == {s[k] : k \in 1..Len(s)}

load_unique_addresses(file) == {lower(file[k]) : k \in 1..Len(file)}

\* load_miner_stats that indexes the first item only
load_miner_stats_FirstOnly(stats) ==
    [key \in {lower(stats[k]["address"]) : k \in (1..Len(stats)) \cap {1}} |-> stats[1]]

\* load_miner_stats in which the first item with a key stays
load_miner_stats_FirstWins(stats) ==
    [key \in {lower(stats[k]["address"]) : k \in 1..Len(stats)} |->
        stats[CHOOSE k \in 1..Len(stats) :
                 /\ lower(stats[k]["address"]) = key
                 /\ \A m \in 1..(k - 1) : lower(stats[m]["address"]) # key]]

\* the last item with a key is the one the dict comprehension keeps
LastWith(stats, key) ==
    CHOOSE k \in 1..Len(stats) :
        /\ lower(stats[k]["address"]) = key
        /\ \A m \in (k + 1)..Len(stats) : lower(stats[m]["address"]) # key

load_miner_stats(stats) ==
    [key \in {lower(stats[k]["address"]) : k \in 1..Len(stats)} |->
        stats[LastWith(stats, key)]]

csv_total_tokens(row) == float(row[BASE])

\* json_total_tokens that reads 'totalTokens' first
json_total_tokens_PrefersTotal(stats) ==
    IF "totalTokens" \in DOMAIN stats
    THEN Round(stats["totalTokens"])
    ELSE Round(stats["revisedTokens"])

json_total_tokens(stats) ==
    IF "revisedTokens" \in DOMAIN stats
    THEN Round(stats["revisedTokens"])
    ELSE Round(stats["totalTokens"])

\* Reconcile with the branches exchanged: the larger total is written
Reconcile_LargerWins(row, stats) ==
    IF json_total_tokens(stats) >= csv_total_tokens(row)
    THEN [row EXCEPT ![BASE] = str(json_total_tokens(stats))]
    ELSE row

\* Reconcile that also overwrites a per-category amount (lines 79-80 live)
Reconcile_TakesCategories(row, stats) ==
    IF json_total_tokens(stats) >= csv_total_tokens(row)
    THEN row
    ELSE [row EXCEPT ![BASE] = str(json_total_tokens(stats)),
                     ![WAIFU] = str(json_total_tokens(stats))]

\* Step 3 for a row whose address is in miner_stats: the row appended
Reconcile(row, stats) ==
    IF json_total_tokens(stats) >= csv_total_tokens(row)
    THEN row
    ELSE [row EXCEPT ![BASE] = str(json_total_tokens(stats))]

\* the amount Step 3 adds to total_base_tokens
ReconciledTotal(row, stats) ==
    IF json_total_tokens(stats) >= csv_total_tokens(row)
    THEN csv_total_tokens(row)
    ELSE json_total_tokens(stats)

\* Skipped that looks the address up as it is written in the row
Skipped_AsWritten(row, excluded) ==
    \/ ~is_valid_ethereum_address(lower(row[ADDRESS]))
    \/ row[ADDRESS] \in excluded

\* Steps 1 and 2: the row is skipped
Skipped(row, excluded) ==
    \/ ~is_valid_ethereum_address(lower(row[ADDRESS]))
    \/ lower(row[ADDRESS]) \in excluded

HasStats(row, stats_dict) == lower(row[ADDRESS]) \in DOMAIN stats_dict

\* Processed that re-prints the base total of a row without remote record
Processed_Reprints(row, stats_dict) ==
    IF lower(row[ADDRESS]) \in DOMAIN stats_dict
    THEN Reconcile(row, stats_dict[lower(row[ADDRESS])])
    ELSE [row EXCEPT ![BASE] = str(float(row[BASE]))]

\* the row Step 3 appends to processed_data
Processed(row, stats_dict) ==
    IF HasStats(row, stats_dict)
    THEN Reconcile(row, stats_dict[lower(row[ADDRESS])])
    ELSE row

ProcessedTotal(row, stats_dict) ==
    IF HasStats(row, stats_dict)
    THEN ReconciledTotal(row, stats_dict[lower(row[ADDRESS])])
    ELSE float(row[BASE])

\* the exception Step 3 raises on the row, "" if none, in evaluation order
RowError(row, stats_dict) ==
    IF HasStats(row, stats_dict)
    THEN LET stats == stats_dict[lower(row[ADDRESS])] IN
         IF floatRaises(row[BASE]) THEN floatError(row[BASE])
         ELSE IF "revisedTokens" \notin DOMAIN stats /\ "totalTokens" \notin DOMAIN stats
              THEN "KeyError"
         ELSE IF floatRaises(row[WAIFU]) THEN floatError(row[WAIFU])
         ELSE IF floatRaises(row[LLAMA]) THEN floatError(row[LLAMA])
         ELSE ""
    ELSE IF floatRaises(row[WAIFU]) THEN floatError(row[WAIFU])
         ELSE IF floatRaises(row[LLAMA]) THEN floatError(row[LLAMA])
         ELSE IF floatRaises(row[BASE]) THEN floatError(row[BASE])
         ELSE ""

\* Keep with a strict threshold
Keep_Strict(row) == float(row[BASE]) > Tok

\* Step 4: the row stays
Keep(row) == float(row[BASE]) >= Tok

RECURSIVE Filter(_)
Filter(rows) ==
    IF rows = <<>> THEN <<>>
    ELSE (IF Keep(Head(rows)) THEN <<Head(rows)>> ELSE <<>>) \o Filter(Tail(rows))

\* sum(float(row[field]) for row in rows), added left to right from 0
RECURSIVE SumFrom(_, _, _)
SumFrom(acc, rows, field) ==
    IF rows = <<>> THEN acc
    ELSE SumFrom(FAdd(acc, float(Head(rows)[field])), Tail(rows), field)

Sum(rows, field) == SumFrom(0, rows, field)

blank_row == Row(<<>>, Empty, Empty, Empty)
TOTAL == <<"T", "O", "T", "A", "L">>
total_row(w, l, b) == Row(TOTAL, str(w), str(l), str(b))

\* Written without the blank row
Written_NoBlank(rows, w, l, b) ==
    IF rows # <<>>
    THEN File(FieldNames, rows \o <<total_row(w, l, b)>>)
    ELSE File(<<>>, <<>>)

\* what the `with open(output_path, 'w')` block leaves in the file
Written(rows, w, l, b) ==
    IF rows # <<>>
    THEN File(FieldNames, rows \o <<blank_row, total_row(w, l, b)>>)
    ELSE File(<<>>, <<>>)

(* ------------------ collect_unique_addresses.py: state ----------------- *)
VARIABLES
    c_pc,                \* position in main
    c_err,               \* the exception that ended main, "" if none
    sybil_files,         \* the files of the glob read so far
    rewards_file,        \* what main found at rewards_file
    c_unique_addresses,  \* main's unique_addresses
    c_output             \* the 'address' column of output_file, <<Absent>> before

collectVars ==
    <<c_pc, c_err, sybil_files, rewards_file, c_unique_addresses, c_output>>

(* ------------------- is_valid_ethereum_address: state ------------------ *)
VARIABLES
    v_pc,                \* "call" before the call, "returned" after it
    v_address,           \* the argument
    v_result,            \* the value returned
    v_evm_pc,            \* the same, for is_valid_evm_address(v_address)
    v_evm_result

validVars == <<v_pc, v_address, v_result, v_evm_pc, v_evm_result>>

(* ------------------------- filter_csv.py: state ------------------------ *)
VARIABLES
    a_pc,                \* position in filter_airdrop_data
    a_df,                \* the rows pd.read_csv gave
    a_filtered_df        \* the rows written to output_file

airdropVars == <<a_pc, a_df, a_filtered_df>>

(* -------------------- fetch_stats_parallel: state ---------------------- *)
VARIABLES
    f_impl,              \* which of the three fetch_stats_parallel runs
    f_delay,             \* the delay argument
    f_addresses,         \* len(addresses)
    f_pc,                \* position of the calling thread
    f_futures,           \* per submitted address: its task, then its result
    f_taken,             \* the futures whose result the caller has taken
    f_results,           \* results: the places in `addresses` they are of
    f_log,               \* what the calling thread did, in order
    f_finished           \* the tasks in the order they finished

fetchVars ==
    <<f_impl, f_delay, f_addresses, f_pc, f_futures, f_taken, f_results, f_log, f_finished>>

notRewardVars == <<collectVars, validVars, airdropVars, fetchVars>>
notCollectVars == <<rewardVars, validVars, airdropVars, fetchVars>>

(* ---------------- filter_and_update_rewards.py: actions ---------------- *)
InitRewards ==
    /\ pc = "load_unique"
    /\ err = ""
    /\ unique_file = <<>>
    /\ stats_file = <<>>
    /\ rewards_rows = <<>>
    /\ unique_addresses = {}
    /\ miner_stats = <<>>
    /\ processed_data = <<>>
    /\ total_waifu_rewards = 0
    /\ total_llama_rewards = 0
    /\ total_base_tokens = 0
    /\ filtered_data = <<>>
    /\ output_file \in {NoFile, OldFile}
    /\ message = ""

Raise(e) ==
    /\ pc' = "raised"
    /\ err' = e

\* line 34
LoadUniqueAddresses ==
    /\ pc = "load_unique"
    /\ \E file \in UniqueFiles :
        /\ unique_file' = file
        /\ IF file = Missing
           THEN Raise("FileNotFoundError") /\ UNCHANGED unique_addresses
           ELSE /\ unique_addresses' = load_unique_addresses(file)
                /\ pc' = "load_stats"
                /\ UNCHANGED err
    /\ UNCHANGED <<stats_file, rewards_rows, miner_stats, processed_data,
                   total_waifu_rewards, total_llama_rewards, total_base_tokens,
                   filtered_data, output_file, message>>
    /\ UNCHANGED notRewardVars

\* line 37
LoadMinerStats ==
    /\ pc = "load_stats"
    /\ \E stats \in StatsFiles :
        /\ stats_file' = stats
        /\ miner_stats' = load_miner_stats(stats)
    /\ pc' = "loop"
    /\ UNCHANGED <<err, unique_file, rewards_rows, unique_addresses, processed_data,
                   total_waifu_rewards, total_llama_rewards, total_base_tokens,
                   filtered_data, output_file, message>>
    /\ UNCHANGED notRewardVars

\* lines 51-91: one iteration of `for row in reader`
ProcessRow ==
    /\ pc = "loop"
    /\ Len(rewards_rows) < MaxRows
    /\ \E row \in CandidateRows :
        /\ rewards_rows' = Append(rewards_rows, row)
        /\ IF Skipped(row, unique_addresses)
           THEN UNCHANGED <<pc, err, processed_data, total_waifu_rewards,
                            total_llama_rewards, total_base_tokens>>
           ELSE IF RowError(row, miner_stats) # ""
           THEN /\ Raise(RowError(row, miner_stats))
                /\ UNCHANGED <<processed_data, total_waifu_rewards,
                               total_llama_rewards, total_base_tokens>>
           ELSE /\ processed_data' = Append(processed_data, Processed(row, miner_stats))
                /\ total_waifu_rewards' = FAdd(total_waifu_rewards, float(row[WAIFU]))
                /\ total_llama_rewards' = FAdd(total_llama_rewards, float(row[LLAMA]))
                /\ total_base_tokens' =
                       FAdd(total_base_tokens, ProcessedTotal(row, miner_stats))
                /\ UNCHANGED <<pc, err>>
    /\ UNCHANGED <<unique_file, stats_file, unique_addresses, miner_stats,
                   filtered_data, output_file, message>>
    /\ UNCHANGED notRewardVars

\* lines 93-99: the reader is exhausted; filter and re-sum
FilterAndSum ==
    /\ pc = "loop"
    /\ filtered_data' = Filter(processed_data)
    /\ total_waifu_rewards' = Sum(Filter(processed_data), WAIFU)
    /\ total_llama_rewards' = Sum(Filter(processed_data), LLAMA)
    /\ total_base_tokens' = Sum(Filter(processed_data), BASE)
    /\ pc' = "write"
    /\ UNCHANGED <<err, unique_file, stats_file, rewards_rows, unique_addresses,
                   miner_stats, processed_data, output_file, message>>
    /\ UNCHANGED notRewardVars

\* lines 102-127
WriteOutput ==
    /\ pc = "write"
    /\ output_file' = Written(filtered_data, total_waifu_rewards,
                              total_llama_rewards, total_base_tokens)
    /\ message' = IF filtered_data # <<>>
                  THEN "Processed data written" ELSE "No data to write."
    /\ pc' = "done"
    /\ UNCHANGED <<err, unique_file, stats_file, rewards_rows, unique_addresses,
                   miner_stats, processed_data, total_waifu_rewards,
                   total_llama_rewards, total_base_tokens, filtered_data>>
    /\ UNCHANGED notRewardVars

NextRewards ==
    \/ LoadUniqueAddresses
    \/ LoadMinerStats
    \/ ProcessRow
    \/ FilterAndSum
    \/ WriteOutput

(* ---------------- collect_unique_addresses.py: inputs ------------------ *)
\* A CSV file is its lines, a line its fields, a field its characters; a
\* field holds a comma only where the file quotes it.
Comma == ","
Joined(a, b) == a \o <<Comma>> \o b
Unreadable == <<<<<<"<unreadable>">>>>>>
AddrC == Addr("c")
AddrDUpper == Addr("D")

\* files the glob over sybils_folder may return
SybilFiles ==
    { <<<<AddrC>>>>,
      <<<<AddrC, AddrDUpper>>>>,
      <<<<Joined(AddrDUpper, AddrC)>>, <<AddrB>>>>,
      <<<<AddrC, AddrB>>, <<AddrDUpper>>>>,
      <<<<AddrC>>, <<AddrB, AddrDUpper>>>>,
      Unreadable }

\* what main may find at rewards_file: nothing, a file pd.read_csv fails on,
\* a file without an 'Address' column, or the cells of that column
NotFound == <<<<"<not found>">>>>
Broken == <<<<"<unreadable>">>>>
NoAddressColumn == <<<<"<no column>">>>>
NaN == <<>>
RewardsFiles ==
    { NotFound, Broken, NoAddressColumn, <<AddrEUpper>>, <<Addr("e"), NaN, AddrAUpper>> }

Absent == <<<<"<absent>">>>>

(* --------------- collect_unique_addresses.py: functions ---------------- *)
\* s.split(',')
RECURSIVE Split(_)
Split(s) ==
    IF \E k \in 1..Len(s) : s[k] = Comma
    THEN LET c == CHOOSE k \in 1..Len(s) :
                      s[k] = Comma /\ \A m \in 1..(k - 1) : s[m] # Comma
         IN  <<SubSeq(s, 1, c - 1)>> \o Split(SubSeq(s, c + 1, Len(s)))
    ELSE <<s>>

Contains(s, c) == \E k \in 1..Len(s) : s[k] = c

\* pd.read_csv(file_path, header=None) raises: the file cannot be read, or
\* a line has more fields than the first line
ReadFails(file) ==
    \/ file = Unreadable
    \/ file = <<>>
    \/ \E k \in 1..Len(file) : Len(file[k]) > Len(file[1])

\* df[0]: the first field of every line, NaN where it is empty
Column0(file) == [k \in 1..Len(file) |-> file[k][1]]

\* lines 25-28: the list `addresses`; isStr tells a str from NaN
Addresses(file) ==
    LET col == Column0(file) IN
    IF \E k \in 1..Len(col) : Contains(col[k], Comma)
    THEN [k \in 1..Len(col) |->
             [isStr |-> col[k] # NaN, s |-> Split(col[k])[1]]]
    ELSE [k \in 1..Len(col) |-> [isStr |-> col[k] # NaN, s |-> col[k]]]

\* SybilUpdate that inserts every piece of every first field
SybilUpdate_AllPieces(file) ==
    UNION {{lower(p) : p \in {Split(Column0(file)[k])[m] :
                                  m \in 1..Len(Split(Column0(file)[k]))}} :
           k \in {m \in 1..Len(file) : Column0(file)[m] # NaN}}

\* line 31: the addresses one sybil file adds
SybilUpdate(file) ==
    {lower(Addresses(file)[k].s) :
        k \in {m \in 1..Len(file) : Addresses(file)[m].isStr}}

\* line 40
RewardsUpdate(cells) ==
    {lower(cells[k]) : k \in {m \in 1..Len(cells) : cells[m] # NaN}}

(* ---------------- collect_unique_addresses.py: actions ----------------- *)
InitCollect ==
    /\ c_pc = "sybils"
    /\ c_err = ""
    /\ sybil_files = <<>>
    /\ rewards_file = NotFound
    /\ c_unique_addresses = {}
    /\ c_output = Absent

\* lines 18-31: one iteration of `for file_path in sybil_files`
ProcessSybilFile ==
    /\ c_pc = "sybils"
    /\ Len(sybil_files) < MaxSybilFiles
    /\ \E file \in SybilFiles :
        /\ sybil_files' = Append(sybil_files, file)
        /\ IF ReadFails(file)
           THEN /\ c_pc' = "raised"
                /\ c_err' = "pandas.errors"
                /\ UNCHANGED c_unique_addresses
           ELSE /\ c_unique_addresses' = c_unique_addresses \cup SybilUpdate(file)
                /\ UNCHANGED <<c_pc, c_err>>
    /\ UNCHANGED <<rewards_file, c_output>>
    /\ UNCHANGED notCollectVars

\* lines 33-46
ProcessRewardsFile ==
    /\ c_pc = "sybils"
    /\ \E file \in RewardsFiles :
        /\ rewards_file' = file
        /\ IF file \in {NotFound, Broken, NoAddressColumn}
           THEN UNCHANGED c_unique_addresses
           ELSE c_unique_addresses' = c_unique_addresses \cup RewardsUpdate(file)
    /\ c_pc' = "save"
    /\ UNCHANGED <<c_err, sybil_files, c_output>>
    /\ UNCHANGED notCollectVars

\* all orders list(set) may give
Orders(S) ==
    {f \in [1..Cardinality(S) -> S] : \A a \in S : \E k \in 1..Cardinality(S) : f[k] = a}

\* lines 48-52
SaveUnique ==
    /\ c_pc = "save"
    /\ c_output' \in Orders(c_unique_addresses)
    /\ c_pc' = "done"
    /\ UNCHANGED <<c_err, sybil_files, rewards_file, c_unique_addresses>>
    /\ UNCHANGED notCollectVars

NextCollect ==
    \/ ProcessSybilFile
    \/ ProcessRewardsFile
    \/ SaveUnique

(* ----------------- is_valid_ethereum_address: the call ----------------- *)
\* a body of n characters c, the one at place p replaced by d
Body(n, c, p, d) == [k \in 1..n |-> IF k = p THEN d ELSE c]

\* strings around the pattern: prefix, 39 to 41 characters, what follows
ValidatorInputs ==
    { prefix \o Body(n, c, p, d) \o suffix :
        prefix \in {<<"0", "x">>, <<"0", "X">>, <<"x">>, <<>>},
        n \in (HexLen - 1)..(HexLen + 1),
        c \in {"a", "F", "9"},
        p \in {1, HexLen - 1},
        d \in {"a", "g", "_", "+", " "},
        suffix \in {<<>>, <<"\n">>, <<"\n", "\n">>} }
    \cup {<<>>}
    \cup { <<"0", "x">> \o inner \o Rep("a", HexLen - Len(inner)) :
             inner \in {<<"0", "x">>, <<"0", "X", "_">>, <<"-">>, <<"+", "0", "x">>,
                        <<"0", "x", "+">>, <<"+", "_">>, <<"a", "_", "_">>} }

InitValid ==
    /\ v_pc = "call"
    /\ v_address \in ValidatorInputs
    /\ v_result = FALSE
    /\ v_evm_pc = "call"
    /\ v_evm_result = FALSE

InitValidIdle ==
    /\ v_pc = "call"
    /\ v_address = <<>>
    /\ v_result = FALSE
    /\ v_evm_pc = "call"
    /\ v_evm_result = FALSE

notValidVars == <<rewardVars, collectVars, airdropVars, fetchVars>>

CallIsValid ==
    /\ v_pc = "call"
    /\ v_result' = is_valid_ethereum_address(v_address)
    /\ v_pc' = "returned"
    /\ UNCHANGED <<v_address, v_evm_pc, v_evm_result>>
    /\ UNCHANGED notValidVars

\* the characters str.strip() and int() take as white space, of those the
\* inputs hold
Whitespace == {" ", "\n"}

RECURSIVE lstrip(_)
lstrip(text) ==
    IF text # <<>> /\ Head(text) \in Whitespace THEN lstrip(Tail(text)) ELSE text

RECURSIVE rstrip(_)
rstrip(text) ==
    IF text # <<>> /\ text[Len(text)] \in Whitespace
    THEN rstrip(SubSeq(text, 1, Len(text) - 1))
    ELSE text

\* int(text, 16), after the white space: an optional sign
Unsigned(text) ==
    IF text # <<>> /\ Head(text) \in {"+", "-"} THEN Tail(text) ELSE text

\* then an optional '0x' or '0X', after which one underscore may stand
Unprefixed(text) ==
    IF Len(text) >= 2 /\ text[1] = "0" /\ text[2] \in {"x", "X"}
    THEN IF Len(text) >= 3 /\ text[3] = "_"
         THEN SubSeq(text, 4, Len(text))
         ELSE SubSeq(text, 3, Len(text))
    ELSE text

\* then digits of base 16, single underscores between them
Digits16(text) ==
    /\ text # <<>>
    /\ text[1] \in HexChars
    /\ text[Len(text)] \in HexChars
    /\ \A k \in 1..Len(text) : text[k] \in HexChars \cup {"_"}
    /\ \A k \in 1..(Len(text) - 1) : ~(text[k] = "_" /\ text[k + 1] = "_")

\* int(text, 16) raises ValueError
intRaises(text) == ~Digits16(Unprefixed(Unsigned(rstrip(lstrip(text)))))

\* miner_feature_generator.py lines 28-41; the argument is a str
is_valid_evm_address(address) ==
    IF ~(Len(address) >= 2 /\ address[1] = "0" /\ address[2] = "x") THEN FALSE
    ELSE IF Len(address) # HexLen + 2 THEN FALSE
    ELSE ~intRaises(SubSeq(address, 3, Len(address)))

CallIsValidEvm ==
    /\ v_evm_pc = "call"
    /\ v_evm_result' = is_valid_evm_address(v_address)
    /\ v_evm_pc' = "returned"
    /\ UNCHANGED <<v_pc, v_address, v_result>>
    /\ UNCHANGED notValidVars

NextValid == CallIsValid \/ CallIsValidEvm

(* ----------------------------- filter_csv.py --------------------------- *)
POINTS_LLAMA == "S1 Llama Points"
POINTS_WAIFU == "S1 Waifu Points"
S1_BASE == "S1 Total Base Tokens"
S1_BONUS == "S1 Total Bonus Tokens"

\* df.columns of the input table: the columns the code names, and one more
\* token column
columns == <<ADDRESS, POINTS_LLAMA, POINTS_WAIFU, S1_BASE, S1_BONUS, BASE>>

AirdropRow(p, b, n, t) ==
    (ADDRESS :> AddrA) @@ (POINTS_LLAMA :> p) @@ (POINTS_WAIFU :> 0) @@
    (S1_BASE :> b) @@ (S1_BONUS :> n) @@ (BASE :> t)

AirdropRows ==
    {AirdropRow(p, b, n, t) : p \in {0, Tok}, b \in {0, Tok}, n \in {0, Tok}, t \in {0, Tok}}

\* line 8
token_columns ==
    LET T(col) == col \notin {ADDRESS, POINTS_LLAMA, POINTS_WAIFU}
    IN  SelectSeq(columns, T)

\* line 11
s1_columns == <<S1_BASE, S1_BONUS>>

\* df[cols].any(axis=1), for one row
any(row, cols) == \E k \in 1..Len(cols) : row[cols[k]] # 0

filter_condition_1(row) == any(row, token_columns)
filter_condition_2(row) == any(row, s1_columns)

\* line 14
final_filter(row) == filter_condition_1(row) /\ filter_condition_2(row)

InitAirdrop ==
    /\ a_pc = "read"
    /\ a_df = <<>>
    /\ a_filtered_df = <<>>

notAirdropVars == <<rewardVars, collectVars, validVars, fetchVars>>

\* lines 4-21
FilterAirdropData ==
    /\ a_pc = "read"
    /\ \E n \in 0..MaxCsvRows : \E df \in [1..n -> AirdropRows] :
        /\ a_df' = df
        /\ a_filtered_df' = SelectSeq(df, final_filter)
    /\ a_pc' = "done"
    /\ UNCHANGED notAirdropVars

NextAirdrop == FilterAirdropData

(* -------------------------- fetch_stats_parallel ----------------------- *)
\* the three files that define fetch_stats_parallel
Implementations == {"miner_rewards_calculator", "miner_data_fetch", "miner_feature_generator"}

\* executor.map(fetch_miner_stats, addresses): miner_rewards_calculator.py line 108
UsesMap(impl) == impl = "miner_rewards_calculator"

\* what fetch_miner_stats returns: the stats, or None (every exception is caught)
Fetched == {"stats", "None"}

InitFetch ==
    /\ f_impl \in Implementations
    /\ f_delay \in {0, 1}
    /\ f_impl = "miner_feature_generator" => f_delay = 1
    /\ f_addresses \in 0..MaxAddresses
    /\ f_pc = "submit"
    /\ f_futures = <<>>
    /\ f_taken = {}
    /\ f_results = <<>>
    /\ f_log = <<>>
    /\ f_finished = <<>>

notFetchVars == <<rewardVars, collectVars, validVars, airdropVars>>

\* the future whose result the caller waits for next: the futures in the
\* order they finish
Awaited_AsCompleted(futures, taken) ==
    LET ready == {i \in 1..Len(futures) : i \notin taken /\ futures[i] \in Fetched}
        left == {i \in 1..Len(futures) : i \notin taken}
    IN  IF ready # {} THEN CHOOSE i \in ready : \A j \in ready : j <= i
        ELSE CHOOSE i \in left : \A j \in left : i <= j

\* the future whose result the caller waits for next: `for future in futures`,
\* and the iterator of executor.map, go through the futures in the order of
\* submission
Awaited(futures, taken) ==
    LET left == {i \in 1..Len(futures) : i \notin taken}
    IN  CHOOSE i \in left : \A j \in left : i <= j

\* executor.submit(fetch_miner_stats, address), and one step of the
\* submissions executor.map makes before it returns
Submit ==
    /\ f_pc = "submit"
    /\ Len(f_futures) < f_addresses
    /\ f_futures' = Append(f_futures, "pending")
    /\ f_log' = Append(f_log, "submit")
    /\ f_pc' = IF UsesMap(f_impl) THEN "submit" ELSE "sleep"
    /\ UNCHANGED <<f_impl, f_delay, f_addresses, f_taken, f_results, f_finished>>
    /\ UNCHANGED notFetchVars

\* time.sleep(delay) after a submission
SleepAfterSubmit ==
    /\ f_pc = "sleep"
    /\ f_log' = Append(f_log, "sleep")
    /\ f_pc' = "submit"
    /\ UNCHANGED <<f_impl, f_delay, f_addresses, f_futures, f_taken, f_results, f_finished>>
    /\ UNCHANGED notFetchVars

\* the end of the submissions
AllSubmitted ==
    /\ f_pc = "submit"
    /\ Len(f_futures) = f_addresses
    /\ f_pc' = "result"
    /\ UNCHANGED <<f_impl, f_delay, f_addresses, f_futures, f_taken, f_results, f_log, f_finished>>
    /\ UNCHANGED notFetchVars

\* a worker thread of the pool takes the oldest pending task
Start(i) ==
    /\ f_futures[i] = "pending"
    /\ \A j \in 1..(i - 1) : f_futures[j] # "pending"
    /\ Cardinality({j \in 1..Len(f_futures) : f_futures[j] = "running"}) < MaxWorkers
    /\ f_futures' = [f_futures EXCEPT ![i] = "running"]
    /\ UNCHANGED <<f_impl, f_delay, f_addresses, f_pc, f_taken, f_results, f_log, f_finished>>
    /\ UNCHANGED notFetchVars

\* fetch_miner_stats returns in a worker thread
Finish(i) ==
    /\ f_futures[i] = "running"
    /\ \E result \in Fetched : f_futures' = [f_futures EXCEPT ![i] = result]
    /\ f_finished' = Append(f_finished, i)
    /\ UNCHANGED <<f_impl, f_delay, f_addresses, f_pc, f_taken, f_results, f_log>>
    /\ UNCHANGED notFetchVars

\* future.result(), or the next result of executor.map, and `if result:`
TakeResult ==
    /\ f_pc = "result"
    /\ f_taken # 1..Len(f_futures)
    /\ LET i == Awaited(f_futures, f_taken)
       IN  /\ f_futures[i] \in Fetched
           /\ f_taken' = f_taken \cup {i}
           /\ f_results' = IF f_futures[i] = "stats" THEN Append(f_results, i) ELSE f_results
    /\ f_log' = Append(f_log, "result")
    /\ f_pc' = IF UsesMap(f_impl) /\ f_delay > 0 THEN "sleep_result" ELSE "result"
    /\ UNCHANGED <<f_impl, f_delay, f_addresses, f_futures, f_finished>>
    /\ UNCHANGED notFetchVars

\* time.sleep(delay) after a result: miner_rewards_calculator.py lines 121-122
SleepAfterResult ==
    /\ f_pc = "sleep_result"
    /\ f_log' = Append(f_log, "sleep")
    /\ f_pc' = "result"
    /\ UNCHANGED <<f_impl, f_delay, f_addresses, f_futures, f_taken, f_results, f_finished>>
    /\ UNCHANGED notFetchVars

\* return results
ReturnResults ==
    /\ f_pc = "result"
    /\ f_taken = 1..Len(f_futures)
    /\ f_pc' = "done"
    /\ UNCHANGED <<f_impl, f_delay, f_addresses, f_futures, f_taken, f_results, f_log, f_finished>>
    /\ UNCHANGED notFetchVars

NextFetch ==
    \/ Submit
    \/ SleepAfterSubmit
    \/ AllSubmitted
    \/ \E i \in 1..Len(f_futures) : Start(i)
    \/ \E i \in 1..Len(f_futures) : Finish(i)
    \/ TakeResult
    \/ SleepAfterResult
    \/ ReturnResults

(* --------------------------- specifications ---------------------------- *)
vars == <<rewardVars, collectVars, validVars, airdropVars, fetchVars>>

InitRewardsIdle == InitRewards /\ output_file = NoFile

InitFetchIdle ==
    /\ f_impl = "miner_data_fetch"
    /\ f_delay = 0
    /\ f_addresses = 0
    /\ f_pc = "submit"
    /\ f_futures = <<>>
    /\ f_taken = {}
    /\ f_results = <<>>
    /\ f_log = <<>>
    /\ f_finished = <<>>

Init == InitRewards /\ InitCollect /\ InitValidIdle /\ InitAirdrop /\ InitFetchIdle

Next == NextRewards

Spec == Init /\ [][Next]_vars

InitC == InitRewardsIdle /\ InitCollect /\ InitValidIdle /\ InitAirdrop /\ InitFetchIdle

SpecCollect == InitC /\ [][NextCollect]_vars

InitV == InitRewardsIdle /\ InitCollect /\ InitValid /\ InitAirdrop /\ InitFetchIdle

SpecValid == InitV /\ [][NextValid]_vars

InitA == InitRewardsIdle /\ InitCollect /\ InitValidIdle /\ InitAirdrop /\ InitFetchIdle

SpecAirdrop == InitA /\ [][NextAirdrop]_vars

InitF == InitRewardsIdle /\ InitCollect /\ InitValidIdle /\ InitAirdrop /\ InitFetch

SpecFetch == InitF /\ [][NextFetch]_vars

(* ======================= process_miner_rewards ========================= *)
LastRow == rewards_rows[Len(rewards_rows)]
LastRec == processed_data[Len(processed_data)]
Canonical(row) == lower(row[ADDRESS])
Max(a, b) == IF a >= b THEN a ELSE b
Min(a, b) == IF a <= b THEN a ELSE b

\* the loop has just appended the record of a row that has a remote record
Reconciled ==
    /\ pc = "loop"
    /\ rewards_rows # <<>>
    /\ ~Skipped(LastRow, unique_addresses)
    /\ Canonical(LastRow) \in DOMAIN miner_stats

RemoteTotal == json_total_tokens(miner_stats[Canonical(LastRow)])
LocalTotal == float(LastRow[BASE])

\* C1, as stated: the reconciled base total of a row with a remote record is
\* the larger of the local and the remote total.
C1_LargerWins ==
    Reconciled => float(LastRec[BASE]) = Max(LocalTotal, RemoteTotal)

\* C1, amended: the reconciled base total of a row with a remote record is
\* the smaller of the two totals: the local total (the row as read) when
\* remote >= local, the remote total when local > remote.
C1_SmallerWins ==
    Reconciled =>
        /\ float(LastRec[BASE]) = Min(LocalTotal, RemoteTotal)
        /\ RemoteTotal >= LocalTotal => LastRec[BASE] = LastRow[BASE]
        /\ LocalTotal > RemoteTotal => LastRec[BASE] = str(RemoteTotal)

C1_Witness ==
    /\ Reconciled
    /\ LocalTotal > RemoteTotal
    /\ float(LastRec[BASE]) = RemoteTotal

\* the rows read that Steps 1 and 2 let through, in order
Admitted ==
    LET T(row) == ~Skipped(row, unique_addresses) IN SelectSeq(rewards_rows, T)

\* the rows read whose record is in filtered_data, in order
Survivors ==
    LET T(row) == float(Processed(row, miner_stats)[BASE]) >= Tok
    IN  SelectSeq(Admitted, T)

\* the records of the output file: its rows but the blank and the TOTAL row
OutputRecords == SubSeq(output_file.rows, 1, Len(output_file.rows) - 2)

Wrote == pc = "done" /\ filtered_data # <<>>

\* C2: every record of the output carries the per-category amounts of the
\* candidate row it came from, with or without a remote record and
\* whichever total the comparison chose.
C2_CategoriesKept ==
    Wrote =>
        LET out == OutputRecords
            src == Survivors
        IN  /\ Len(out) = Len(src)
            /\ \A k \in 1..Len(out) :
                /\ out[k][ADDRESS] = src[k][ADDRESS]
                /\ out[k][WAIFU] = src[k][WAIFU]
                /\ out[k][LLAMA] = src[k][LLAMA]

C2_Witness ==
    /\ Wrote
    /\ \E k \in 1..Len(OutputRecords) :
        /\ HasStats(Survivors[k], miner_stats)
        /\ OutputRecords[k][BASE] # Survivors[k][BASE]
        /\ OutputRecords[k][WAIFU] = Survivors[k][WAIFU]
    /\ \E k \in 1..Len(OutputRecords) : ~HasStats(Survivors[k], miner_stats)

\* what a surviving row adds to the aggregate: its own base total when it
\* has no remote record, the total of its record otherwise
RECURSIVE Contributions(_, _, _)
Contributions(acc, rows, recs) ==
    IF rows = <<>> THEN acc
    ELSE Contributions(
             FAdd(acc, IF HasStats(Head(rows), miner_stats)
                       THEN float(Head(recs)[BASE])
                       ELSE float(Head(rows)[BASE])),
             Tail(rows), Tail(recs))

\* C3: a row whose canonical address has no remote record is carried into
\* the reconciled data with every field unchanged, and adds exactly its
\* local base total to the aggregate base total when it survives the
\* threshold.
C3_NoRemotePassThrough ==
    /\ pc = "loop" =>
        LET adm == Admitted
        IN  /\ Len(processed_data) = Len(adm)
            /\ \A k \in 1..Len(adm) :
                   ~HasStats(adm[k], miner_stats) => processed_data[k] = adm[k]
    /\ pc = "done" =>
        LET src == Survivors
        IN  /\ Len(filtered_data) = Len(src)
            /\ \A k \in 1..Len(src) :
                   ~HasStats(src[k], miner_stats) => filtered_data[k] = src[k]
            /\ total_base_tokens = Contributions(0, src, filtered_data)

C3_Witness ==
    /\ pc = "done"
    /\ \E k \in 1..Len(Survivors) :
        /\ ~HasStats(Survivors[k], miner_stats)
        /\ filtered_data[k] = Survivors[k]
    /\ \E k \in 1..Len(Admitted) :
        /\ ~HasStats(Admitted[k], miner_stats)
        /\ float(Admitted[k][BASE]) < Tok
    /\ total_base_tokens > 0

\* the three predicates a row has to pass
WellFormed(row) == is_valid_ethereum_address(Canonical(row))
Excluded(row) == \E k \in 1..Len(unique_file) : lower(unique_file[k]) = Canonical(row)
FinalTotal(row) == float(Processed(row, miner_stats)[BASE])

InOutput(row, out) ==
    \E k \in 1..Len(out) : out[k] = Processed(row, miner_stats)

C5_Deduplicated ==
    Wrote =>
        \A j, k \in 1..Len(OutputRecords) :
            Canonical(OutputRecords[j]) = Canonical(OutputRecords[k]) => j = k

Permuted(rows, p) == [k \in 1..Len(rows) |-> rows[p[k]]]

\* C6: the three values of the TOTAL row are the sums of the fields over
\* the records that survived the threshold, and every ordering of the rows
\* gives the same three values (stated for outputs without a repeated
\* address, so that a violation owes nothing to C5).
C6_TotalsOrderFree ==
    Wrote /\ C5_Deduplicated =>
        LET out == OutputRecords
            last == output_file.rows[Len(output_file.rows)]
        IN  \A p \in Permutations(1..Len(out)) :
                /\ float(last[WAIFU]) = Sum(Permuted(out, p), WAIFU)
                /\ float(last[LLAMA]) = Sum(Permuted(out, p), LLAMA)
                /\ float(last[BASE]) = Sum(Permuted(out, p), BASE)

\* the last row read has a remote record with neither figure, and is a row
\* the run would otherwise process
NoRemoteFigure ==
    /\ rewards_rows # <<>>
    /\ pc \in {"loop", "raised"}
    /\ ~Skipped(LastRow, unique_addresses)
    /\ Canonical(LastRow) \in DOMAIN miner_stats
    /\ "revisedTokens" \notin DOMAIN miner_stats[Canonical(LastRow)]
    /\ "totalTokens" \notin DOMAIN miner_stats[Canonical(LastRow)]
    /\ \A f \in {WAIFU, LLAMA, BASE} : ~floatRaises(LastRow[f])

\* C7: a remote record with neither 'revisedTokens' nor 'totalTokens' is
\* treated as no remote record: the local values are kept and nothing is
\* raised.
C7_MissingFigureFallsBack ==
    NoRemoteFigure =>
        /\ pc # "raised"
        /\ processed_data # <<>>
        /\ LastRec = LastRow

\* C8: when filtering removes every candidate the run ends without raising
\* and leaves the file at output_path as it was: none is created, an
\* existing one is not changed.
C8_EmptyResultNoArtifact ==
    [][pc = "write" /\ filtered_data = <<>> =>
           pc' = "done" /\ output_file' = output_file]_vars

(* ==================== collect_unique_addresses.main ==================== *)
\* the text of a line: its fields joined by commas
RECURSIVE LineText(_)
LineText(line) ==
    IF Len(line) = 1 THEN line[1]
    ELSE Joined(line[1], LineText(Tail(line)))

\* the lines of the cluster files read so far
RECURSIVE LinesOf(_)
LinesOf(files) ==
    IF files = <<>> THEN {}
    ELSE {Head(files)[k] : k \in 1..Len(Head(files))} \cup LinesOf(Tail(files))

Pieces(line) == Range(Split(LineText(line)))
FirstPiece(line) == Split(LineText(line))[1]

ClaimedPart ==
    IF rewards_file \in {NotFound, Broken, NoAddressColumn} THEN {}
    ELSE {lower(a) : a \in Range(rewards_file) \ {NaN}}

Built == c_pc \in {"sybils", "save", "done"}

\* C9, as stated: every address of a line that joins several addresses by
\* commas is in the set, lower-cased.
C9_EveryJoinedAddress ==
    Built =>
        \A line \in LinesOf(sybil_files) :
            \A a \in Pieces(line) : lower(a) \in c_unique_addresses

\* C9, amended: of a line that joins several addresses by commas the build
\* inserts the first one, lower-cased, and no other: the set is the
\* lower-cased first addresses of the lines read, and the claimed addresses.
C9_FirstJoinedAddress ==
    Built =>
        c_unique_addresses =
            {lower(FirstPiece(line)) : line \in LinesOf(sybil_files)} \cup ClaimedPart

C9_Witness ==
    /\ c_pc = "done"
    /\ \E line \in LinesOf(sybil_files) :
        /\ Cardinality(Pieces(line)) > 1
        /\ lower(FirstPiece(line)) \in c_unique_addresses
        /\ \E a \in Pieces(line) : lower(a) \notin c_unique_addresses

\* the cluster files of the glob that pd.read_csv can read
Readable(files) == {k \in 1..Len(files) : ~ReadFails(files[k])}

\* C10: a missing or unreadable exclusion source does not abort the build;
\* it goes on with the other sources and the set holds what the build takes
\* from every readable one.
C10_SourceTolerated ==
    /\ c_pc # "raised"
    /\ c_pc = "done" =>
        /\ \A k \in Readable(sybil_files) : SybilUpdate(sybil_files[k]) \subseteq c_unique_addresses
        /\ ClaimedPart \subseteq c_unique_addresses
        /\ Range(c_output) = c_unique_addresses

(* ===================== is_valid_ethereum_address ======================= *)
\* '0x', then exactly 40 hexadecimal characters, and nothing else
Exactly42(a) ==
    /\ Len(a) = HexLen + 2
    /\ a[1] = "0"
    /\ a[2] = "x"
    /\ \A k \in 3..(HexLen + 2) : a[k] \in HexChars

\* C11: is_valid_ethereum_address(a) is true exactly when a is '0x' and 40
\* hexadecimal characters, 42 characters in all; it is false for every
\* other string, one with a trailing newline included.
C11_ExactPattern ==
    v_pc = "returned" => (v_result <=> Exactly42(v_address))

\* C21: the two validators agree on every string: is_valid_evm_address(a) is
\* true exactly when is_valid_ethereum_address(a) is, also for a string of
\* 42 characters that starts with '0x' and has a sign, an underscore or
\* white space after it.
C21_ValidatorsAgree ==
    v_pc = "returned" /\ v_evm_pc = "returned" => (v_evm_result <=> v_result)

(* ================= process_miner_rewards, continued ==================== *)
\* the last row read lacks a number in a numeric field, and is a row the
\* run would otherwise process (its remote record, if any, has a figure)
MissingNumber ==
    /\ rewards_rows # <<>>
    /\ pc \in {"loop", "raised"}
    /\ ~Skipped(LastRow, unique_addresses)
    /\ \E f \in {WAIFU, LLAMA, BASE} : floatRaises(LastRow[f])
    /\ HasStats(LastRow, miner_stats) =>
           \E f \in {"revisedTokens", "totalTokens"} :
               f \in DOMAIN miner_stats[Canonical(LastRow)]

\* C12: a row with an absent or empty numeric field is processed with the
\* value taken as zero, and nothing is raised for it.
C12_MissingNumberIsZero ==
    MissingNumber =>
        /\ pc # "raised"
        /\ processed_data # <<>>
        /\ LastRec[ADDRESS] = LastRow[ADDRESS]

\* process_miner_rewards as a function of what it reads: the file written
RunOutput(rows, excluded, stats_dict) ==
    LET T(row) == ~Skipped(row, excluded)
        adm == SelectSeq(rows, T)
        recs == Filter([k \in 1..Len(adm) |-> Processed(adm[k], stats_dict)])
    IN  Written(recs, Sum(recs, WAIFU), Sum(recs, LLAMA), Sum(recs, BASE))

OrderFree ==
    \A p \in Permutations(1..Len(stats_file)) :
        RunOutput(rewards_rows, unique_addresses,
                  load_miner_stats(Permuted(stats_file, p))) = output_file

DistinctKeys ==
    \A j, k \in 1..Len(stats_file) :
        lower(stats_file[j]["address"]) = lower(stats_file[k]["address"]) => j = k

\* C13, as stated: every permutation of the remote records gives the same
\* output records and TOTAL row.
C13_AnyRemoteOrder == pc = "done" => OrderFree

\* C13, amended: every permutation of remote records no two of which have
\* the same lower-cased address gives the same output records and TOTAL
\* row.
C13_DistinctRemoteOrder == pc = "done" /\ DistinctKeys => OrderFree

C13_Witness ==
    /\ Wrote
    /\ DistinctKeys
    /\ Len(stats_file) = 2
    /\ \E k \in 1..Len(OutputRecords) :
        /\ HasStats(Survivors[k], miner_stats)
        /\ OutputRecords[k] # Survivors[k]

SameIgnoringCase(a, b) ==
    /\ Len(a) = Len(b)
    /\ \A k \in 1..Len(a) : lowerChar(a[k]) = lowerChar(b[k])

\* the last remote record whose address is a, letter case aside
LastMatch(a) ==
    stats_file[CHOOSE j \in 1..Len(stats_file) :
        /\ SameIgnoringCase(stats_file[j]["address"], a)
        /\ \A m \in (j + 1)..Len(stats_file) :
               ~SameIgnoringCase(stats_file[m]["address"], a)]

\* C14: exclusion tests and remote lookups compare lower-cased addresses:
\* a row whose address is an exclusion entry but for letter case is
\* excluded, and a row whose address is a remote record's but for letter
\* case is reconciled against that record.
C14_CaseInsensitive ==
    pc = "done" =>
        LET adm == Admitted IN
        /\ \A k \in 1..Len(processed_data) : \A j \in 1..Len(unique_file) :
               ~SameIgnoringCase(processed_data[k][ADDRESS], unique_file[j])
        /\ Len(adm) = Len(processed_data)
        /\ \A k \in 1..Len(adm) :
               (\E j \in 1..Len(stats_file) :
                    SameIgnoringCase(stats_file[j]["address"], adm[k][ADDRESS]))
               => processed_data[k] = Reconcile(adm[k], LastMatch(adm[k][ADDRESS]))

C14_Witness ==
    /\ pc = "done"
    /\ \E i \in 1..Len(rewards_rows) : \E j \in 1..Len(unique_file) :
        /\ rewards_rows[i][ADDRESS] # unique_file[j]
        /\ SameIgnoringCase(rewards_rows[i][ADDRESS], unique_file[j])
    /\ \E k \in 1..Len(processed_data) : \E j \in 1..Len(stats_file) :
        /\ Admitted[k][ADDRESS] # stats_file[j]["address"]
        /\ SameIgnoringCase(Admitted[k][ADDRESS], stats_file[j]["address"])
        /\ processed_data[k] # Admitted[k]

\* C15: the rows written are the surviving records in the order of the
\* input table, then one blank row, then a row whose Address is 'TOTAL'
\* and whose only other fields are the three sums.
C15_OutputLayout ==
    Wrote =>
        LET src == Survivors
            rows == output_file.rows
            n == Len(src)
        IN  /\ Len(rows) = n + 2
            /\ \A k \in 1..n : rows[k] = Processed(src[k], miner_stats)
            /\ rows[n + 1] = Row(<<>>, Empty, Empty, Empty)
            /\ rows[n + 2] =
                   Row(<<"T", "O", "T", "A", "L">>,
                       str(Sum(SubSeq(rows, 1, n), WAIFU)),
                       str(Sum(SubSeq(rows, 1, n), LLAMA)),
                       str(Sum(SubSeq(rows, 1, n), BASE)))

C15_Witness ==
    /\ Wrote
    /\ Len(OutputRecords) >= 2
    /\ OutputRecords[1] # OutputRecords[2]
    /\ Len(rewards_rows) > Len(OutputRecords)

BothFigures(stats) ==
    "revisedTokens" \in DOMAIN stats /\ "totalTokens" \in DOMAIN stats

\* the record Step 3 makes of the last row when the remote total is v
Against(v) ==
    IF v >= LocalTotal THEN LastRow ELSE [LastRow EXCEPT ![BASE] = str(v)]

\* C16: with both figures in the remote record the total compared is
\* 'revisedTokens'; 'totalTokens' is compared only when 'revisedTokens' is
\* absent.
C16_RevisedFirst ==
    Reconciled =>
        LET stats == miner_stats[Canonical(LastRow)] IN
        /\ "revisedTokens" \in DOMAIN stats =>
               LastRec = Against(Round(stats["revisedTokens"]))
        /\ "revisedTokens" \notin DOMAIN stats =>
               LastRec = Against(Round(stats["totalTokens"]))

C16_Witness ==
    /\ Reconciled
    /\ BothFigures(miner_stats[Canonical(LastRow)])
    /\ LastRec # LastRow
    /\ LastRec # Against(Round(miner_stats[Canonical(LastRow)]["totalTokens"]))

StatsLoaded == pc \in {"loop", "write", "done"}

\* C17: load_miner_stats indexes the records by lower-cased address, and of
\* several records with the same lower-cased address the last one of the
\* source is the one a lookup returns.
C17_LastWriteWins ==
    StatsLoaded =>
        /\ DOMAIN miner_stats =
               {lower(stats_file[j]["address"]) : j \in 1..Len(stats_file)}
        /\ \A j \in 1..Len(stats_file) :
               miner_stats[lower(stats_file[j]["address"])] =
                   LastMatch(stats_file[j]["address"])

C17_Witness ==
    /\ StatsLoaded
    /\ Len(stats_file) = 2
    /\ ~DistinctKeys
    /\ stats_file[1] # stats_file[2]
    /\ miner_stats[lower(stats_file[1]["address"])] = stats_file[2]

(* ========================= filter_airdrop_data ========================= *)
Dropped(row) == \A k \in 1..Len(a_filtered_df) : a_filtered_df[k] # row

AllZero(row) ==
    /\ \A k \in 1..Len(columns) :
           columns[k] \notin {ADDRESS, POINTS_LLAMA, POINTS_WAIFU} => row[columns[k]] = 0
    /\ row[S1_BASE] = 0
    /\ row[S1_BONUS] = 0

\* C18: the guard drops a row only when all its token columns and all its
\* season-base total columns are zero; a row with a non-zero token amount
\* in some column is never dropped.
C18_DropsOnlyAllZero ==
    a_pc = "done" =>
        \A k \in 1..Len(a_df) : Dropped(a_df[k]) => AllZero(a_df[k])

(* ========================= fetch_stats_parallel ======================== *)
\* C19: in every implementation the requests are submitted one at a time
\* with a delay between consecutive submissions: between any two
\* submissions the calling thread has slept.
C19_DelayBetweenSubmissions ==
    \A j \in 1..Len(f_log) : \A k \in (j + 1)..Len(f_log) :
        f_log[j] = "submit" /\ f_log[k] = "submit" =>
            \E m \in (j + 1)..(k - 1) : f_log[m] = "sleep"

Places == [i \in 1..f_addresses |-> i]

Succeeded(i) == f_futures[i] = "stats"

Overtaken ==
    \E j \in 1..Len(f_finished) : \E k \in (j + 1)..Len(f_finished) :
        /\ f_finished[j] > f_finished[k]
        /\ Succeeded(f_finished[j])
        /\ Succeeded(f_finished[k])

====
